---- MODULE Spec2Model ----
(***************************************************************************)
(* A model of src/tinnitus.js: the SessionManager state machine            *)
(* (start / pause / resume / stop), its self-rescheduling stimulus tick    *)
(* (playSequence), the 100 ms elapsed-time sampler (startTimer/stopTimer), *)
(* the audio device life cycle (initialize, close().then(initialize)) and  *)
(* the synthesizer / processing chain calls a tick makes.                  *)
(*                                                                         *)
(* Time is in milliseconds.  Date.now() is the variable now; it advances   *)
(* in steps of StepMs.  Browser timers never fire early and may fire       *)
(* late: a callback may run at any instant at or after its due time.       *)
(* A timer handle is the smallest identifier of no outstanding timer; the  *)
(* handle of a timer that has run or was cleared names nothing, and every  *)
(* such handle is written Dead.                                            *)
(***************************************************************************)
EXTENDS Integers, FiniteSets, Sequences, TLC

VARIABLES
  isRunning,        \* SessionManager.isRunning
  isPaused,         \* SessionManager.isPaused
  startTime,        \* SessionManager.startTime (null is 0: Date.now() - null = Date.now())
  elapsedTime,      \* SessionManager.elapsedTime
  stimuliCount,     \* SessionManager.stimuliCount
  timerInterval,    \* SessionManager.timerInterval (0 is null)
  sequenceTimeout,  \* SessionManager.sequenceTimeout (0 is null)
  audioContext,     \* SessionManager.audioContext (0 is null, else a context id)
  synthesizer,      \* SessionManager.synthesizer: [ctx]
  processor,        \* SessionManager.processor: [ctx, pan, gain, lowpass, highpass]
  config,           \* SessionManager.config (TherapyConfig)
  timeouts,         \* outstanding setTimeout callbacks: {[id, due]}
  intervals,        \* outstanding setInterval callbacks: {[id, due]}
  contexts,         \* the AudioContext objects: id -> [state, closing, currentTime]
  now,              \* Date.now()
  ui,               \* the status last given to updateUI
  activeMs,         \* history: real time spent Running since the last start()
  tickAt,           \* history: Date.now() of the latest tick of the session, -1 if none
  last              \* history: the handler that ran in the latest step and what it did

vars == <<isRunning, isPaused, startTime, elapsedTime, stimuliCount, timerInterval,
          sequenceTimeout, audioContext, synthesizer, processor, config, timeouts,
          intervals, contexts, now, ui, activeMs, tickAt, last>>

----------------------------------------------------------------------------
(* Bounds of the model *)

\* the horizon of the clock, in steps of StepMs after Epoch
MaxSteps == 2
\* a tick is not started once stimuliCount has reached this
MaxStimuli == 3
\* an unguarded call is not made once this many timers are outstanding
MaxTimers == 4

(* Values of the environment *)

\* Date.now() when the page loads
Epoch == 100000
\* the granularity at which the model observes the clock
StepMs == 1500
\* the period given to setInterval
SamplerPeriodMs == 100
\* AudioContext.sampleRate
sampleRate == 44100

\* initialize() overwrites every reference to the context it replaces, so
\* one identifier names the context the program can reach
CtxIds == {1}
\* a handle that is not null and names no outstanding timer
Dead == -1
NoContext == [state |-> "none", closing |-> FALSE, currentTime |-> 0]

(* The values the configuration controls can take *)
Techniques == {"acrn", "notch", "white", "tts", "other"}
Durations == {0, 2}
IntervalsSec == {1}
Texts == {<< >>, <<" ">>, <<"o", "i">>}
\* hundredths of a hertz
Frequencies == {44000, 100000}
\* hundredths
Pannings == {0, -100}
Volumes == {50, 100}
\* hertz
LowpassFreqs == {5000, 1000}
HighpassFreqs == {100, 500}

----------------------------------------------------------------------------
(* TherapyConfig.  Frequencies are in hundredths of a hertz, the volume in *)
(* hundredths, durations and intervals in seconds, a text is a sequence of *)
(* characters.                                                             *)

TherapyConfig ==
  [frequency |-> 44000, duration |-> 2, interval |-> 1, technique |-> "acrn",
   ttsText |-> << >>, panning |-> 0, volume |-> 50, lowpassFreq |-> 5000,
   highpassFreq |-> 100]

update(cfg, param, value) == [cfg EXCEPT ![param] = value]

----------------------------------------------------------------------------
(* AudioSynthesizer.  Audio times are in milliseconds.  A call that the    *)
(* Web Audio API rejects by throwing gives raised = TRUE.                  *)

\* AudioParam.linearRampToValueAtTime / setValueAtTime throw a RangeError
\* for a negative time
rampRaises(events) == \E i \in 1..Len(events) : events[i].t < 0

\* the value, in thousandths, of a gain at time t under the automation
\* events: setValueAtTime(events[1]) and then a linearRampToValueAtTime for
\* each later event.  A linear ramp starts at the time of the event before
\* it; before the first event the gain has its default, 1; after the last
\* it keeps the last value.  The times of events are increasing.
valueAt(events, t) ==
  LET n == Len(events) IN
  IF t < events[1].t THEN 1000
  ELSE IF t >= events[n].t THEN events[n].v * 1000
  ELSE LET i == CHOOSE j \in 1..(n - 1) : events[j].t <= t /\ t < events[j + 1].t
           a == events[i]
           b == events[i + 1]
       IN a.v * 1000 + ((b.v - a.v) * 1000 * (t - a.t)) \div (b.t - a.t)

createPureTone(frequency, duration, startAt) ==
  LET events == << [v |-> 0, t |-> startAt],
                   [v |-> 1, t |-> startAt + 10],
                   [v |-> 0, t |-> startAt + duration * 1000 - 10] >>
  IN [kind |-> "sine", frequency |-> frequency, envelope |-> events,
      start |-> -1, stop |-> -1, raised |-> rampRaises(events)]

\* createACRN giving its four tones the same start time
createACRNTogether(baseFreq, duration, startAt) ==
  LET freqs == << (baseFreq * 77) \div 100, (baseFreq * 90) \div 100,
                  (baseFreq * 110) \div 100, (baseFreq * 123) \div 100 >>
  IN [i \in 1..4 |-> createPureTone(freqs[i], duration, startAt)]

createACRN(baseFreq, duration, startAt) ==
  LET freqs == << (baseFreq * 77) \div 100, (baseFreq * 90) \div 100,
                  (baseFreq * 110) \div 100, (baseFreq * 123) \div 100 >>
  IN [i \in 1..4 |-> createPureTone(freqs[i], duration, startAt + (i - 1) * 100)]

createWhiteNoise(duration, startAt) ==
  LET bufferSize == sampleRate * duration
      events == << [v |-> 0, t |-> startAt],
                   [v |-> 1, t |-> startAt + 100],
                   [v |-> 0, t |-> startAt + duration * 1000 - 100] >>
  IN [kind |-> "noise", frequency |-> 0, envelope |-> events, start |-> -1,
      stop |-> -1,
      \* createBuffer throws NotSupportedError for a length of 0 frames
      raised |-> (bufferSize < 1) \/ rampRaises(events)]

isSpace(ch) == ch = " "

RECURSIVE trimStart(_)
trimStart(text) ==
  IF text # << >> /\ isSpace(Head(text)) THEN trimStart(Tail(text)) ELSE text

RECURSIVE trimEnd(_)
trimEnd(text) ==
  IF text # << >> /\ isSpace(text[Len(text)])
  THEN trimEnd(SubSeq(text, 1, Len(text) - 1)) ELSE text

trim(text) == trimEnd(trimStart(text))

\* "speechSynthesis" in window
speechSynthesisInWindow == TRUE

\* speakText without the trim
speakTextUntrimmed(text) == speechSynthesisInWindow /\ text # << >>

\* TRUE when window.speechSynthesis.speak was called
speakText(text) == speechSynthesisInWindow /\ trim(text) # << >>

----------------------------------------------------------------------------
(* AudioProcessor *)

setupProcessingChain(ctx) ==
  [ctx |-> ctx, pan |-> 0, lowpass |-> 5000, highpass |-> 100, gain |-> 50]

NoProcessor == [ctx |-> 0, pan |-> 0, lowpass |-> 0, highpass |-> 0, gain |-> 0]

updateSpatial(p, panValue) == [p EXCEPT !.pan = panValue]
\* updateVolume leaving the gain as it is
updateVolumeIgnored(p, volume) == p
updateVolume(p, volume) == [p EXCEPT !.gain = volume]
updateLowpass(p, freq) == [p EXCEPT !.lowpass = freq]
updateHighpass(p, freq) == [p EXCEPT !.highpass = freq]

----------------------------------------------------------------------------
(* The state as one record, so that a method is a function from the state  *)
(* before the call to the state after it, composed the way the code calls. *)
(* threw: the call in progress ended by an exception.  tick: what the      *)
(* playSequence call of this step did ("none": not called, "skipped": its  *)
(* guard returned, "done", "threw").  stimulus: the sources it started,    *)
(* spoke: whether it called speechSynthesis.speak, delay: the delay it     *)
(* gave setTimeout.  cancelled: a clearTimeout of this step removed an     *)
(* outstanding timer.  arg: the arguments of a method called by itself.     *)

World ==
  [isRunning |-> isRunning, isPaused |-> isPaused, startTime |-> startTime,
   elapsedTime |-> elapsedTime, stimuliCount |-> stimuliCount,
   timerInterval |-> timerInterval, sequenceTimeout |-> sequenceTimeout,
   audioContext |-> audioContext, synthesizer |-> synthesizer,
   processor |-> processor, config |-> config, timeouts |-> timeouts,
   intervals |-> intervals, contexts |-> contexts, now |-> now, ui |-> ui,
   activeMs |-> activeMs, tickAt |-> tickAt,
   threw |-> FALSE, tick |-> "none", stimulus |-> << >>, spoke |-> FALSE,
   delay |-> -1, cancelled |-> FALSE, arg |-> << >>]

Phase == IF ~isRunning THEN "Idle" ELSE IF isPaused THEN "Paused" ELSE "Running"

\* the handle h as the program can use it: null, an outstanding timer, or Dead
Handle(h, timers) ==
  IF h # 0 /\ h \notin {t.id : t \in timers} THEN Dead ELSE h

\* the step of handler op leaves the state w; last also keeps the phase, the
\* stimuliCount and the elapsedTime the step began with
Becomes(w, op) ==
  /\ isRunning' = w.isRunning
  /\ isPaused' = w.isPaused
  /\ startTime' = w.startTime
  /\ elapsedTime' = w.elapsedTime
  /\ stimuliCount' = w.stimuliCount
  /\ timerInterval' = Handle(w.timerInterval, w.intervals)
  /\ sequenceTimeout' = Handle(w.sequenceTimeout, w.timeouts)
  /\ audioContext' = w.audioContext
  /\ synthesizer' = w.synthesizer
  /\ processor' = w.processor
  /\ config' = w.config
  /\ timeouts' = w.timeouts
  /\ intervals' = w.intervals
  /\ contexts' = w.contexts
  /\ now' = w.now
  /\ ui' = w.ui
  /\ activeMs' = w.activeMs
  /\ tickAt' = w.tickAt
  /\ last' = [op |-> op, threw |-> w.threw, tick |-> w.tick,
              stimulus |-> w.stimulus, spoke |-> w.spoke, delay |-> w.delay,
              cancelled |-> w.cancelled, from |-> Phase, count0 |-> stimuliCount,
              elapsed0 |-> elapsedTime, arg |-> w.arg]

----------------------------------------------------------------------------
(* The browser's timers and audio contexts *)

UsedIds(w) == {t.id : t \in w.timeouts} \cup {t.id : t \in w.intervals}

\* the handle setTimeout / setInterval returns
FreshId(w) == CHOOSE i \in 1..(MaxTimers + 3) :
                /\ i \notin UsedIds(w)
                /\ \A j \in 1..(i - 1) : j \in UsedIds(w)

setTimeout(w, id, delayMs) ==
  [w EXCEPT !.timeouts = @ \cup {[id |-> id, due |-> w.now + delayMs]}]

clearTimeout(w, id) ==
  [w EXCEPT !.timeouts = {t \in @ : t.id # id},
            !.cancelled = @ \/ \E t \in w.timeouts : t.id = id]

setInterval(w, id, periodMs) ==
  [w EXCEPT !.intervals = @ \cup {[id |-> id, due |-> w.now + periodMs]}]

clearInterval(w, id) ==
  [w EXCEPT !.intervals = {t \in @ : t.id # id}]

\* AudioContext.suspend(): the promise is rejected on a closed context
ctxSuspend(w) ==
  LET c == w.audioContext IN
  IF w.contexts[c].closing THEN w
  ELSE [w EXCEPT !.contexts[c].state = "suspended"]

\* AudioContext.resume(): the promise is rejected on a closed context
ctxResume(w) ==
  LET c == w.audioContext IN
  IF w.contexts[c].closing THEN w
  ELSE [w EXCEPT !.contexts[c].state = "running"]

\* AudioContext.close(): the context is closed for the control thread at
\* once; its state attribute and the promise follow when the device is
\* released.  On a context already closed the promise is rejected.
ctxClose(w) ==
  LET c == w.audioContext IN
  IF w.contexts[c].closing THEN w
  ELSE [w EXCEPT !.contexts[c].closing = TRUE]

----------------------------------------------------------------------------
(* SessionManager *)

\* new AudioContext() throws when the device is unavailable (ok = FALSE);
\* a new context starts "suspended" or "running" (st), as the browser's
\* autoplay policy decides.  The context replaced is referred to by nothing
\* afterwards.
initialize(w, ok, st) ==
  IF ~ok THEN [w EXCEPT !.threw = TRUE]
  ELSE LET c == CHOOSE i \in CtxIds : TRUE
       IN [w EXCEPT !.contexts = [i \in CtxIds |->
                        IF i = c THEN [state |-> st, closing |-> FALSE, currentTime |-> 0]
                        ELSE NoContext],
                    !.audioContext = c,
                    !.synthesizer = [ctx |-> c],
                    !.processor = setupProcessingChain(c)]

updateUI(w, status) == [w EXCEPT !.ui = status]

startTimer(w) ==
  LET id == FreshId(w)
  IN [setInterval(w, id, SamplerPeriodMs) EXCEPT !.timerInterval = id]

\* stopTimer forgetting the handle without clearing the interval
stopTimerForgets(w) == [w EXCEPT !.timerInterval = 0]

stopTimer(w) ==
  IF w.timerInterval # 0
  THEN [clearInterval(w, w.timerInterval) EXCEPT !.timerInterval = 0]
  ELSE w

\* the callback startTimer gives to setInterval
sampler(w) == [w EXCEPT !.elapsedTime = w.now - w.startTime]

\* playSequence past its guard
tick(w) ==
    LET t0 == w.contexts[w.audioContext].currentTime
        technique == w.config.technique
        chain == updateHighpass(
                   updateLowpass(
                     updateVolume(
                       updateSpatial(w.processor, w.config.panning),
                       w.config.volume),
                     w.config.lowpassFreq),
                   w.config.highpassFreq)
        made == IF technique = "acrn"
                  THEN createACRN(w.config.frequency, w.config.duration, t0)
                ELSE IF technique = "notch"
                  THEN << createPureTone(w.config.frequency, w.config.duration, t0) >>
                ELSE IF technique = "white"
                  THEN << createWhiteNoise(w.config.duration, t0) >>
                ELSE << >>
        raised == \E i \in 1..Len(made) : made[i].raised
        started == [i \in 1..Len(made) |->
                      [made[i] EXCEPT !.start = t0,
                                      !.stop = IF technique = "white" THEN -1
                                               ELSE t0 + w.config.duration * 1000]]
        spoke == /\ technique = "tts"
                 /\ w.config.ttsText # << >>
                 /\ speakText(w.config.ttsText)
        w1 == [w EXCEPT !.processor = chain, !.tickAt = w.now]
        id == FreshId(w1)
        nextDelay == (w.config.duration + w.config.interval) * 1000
    IN IF raised
       THEN [w1 EXCEPT !.threw = TRUE, !.tick = "threw"]
       ELSE [setTimeout(w1, id, nextDelay) EXCEPT
               !.stimuliCount = @ + 1, !.sequenceTimeout = id, !.tick = "done",
               !.stimulus = started, !.spoke = spoke, !.delay = nextDelay]

\* playSequence with a guard that looks at isRunning only
playSequenceWhilePaused(w) ==
  IF ~w.isRunning THEN [w EXCEPT !.tick = "skipped"] ELSE tick(w)

\* playSequence refusing a technique that is none of the four it knows
playSequenceKnownOnly(w) ==
  IF ~w.isRunning \/ w.isPaused THEN [w EXCEPT !.tick = "skipped"]
  ELSE IF w.config.technique \notin {"acrn", "notch", "white", "tts"}
       THEN [w EXCEPT !.threw = TRUE, !.tick = "threw"]
       ELSE tick(w)

playSequence(w) ==
  IF ~w.isRunning \/ w.isPaused THEN [w EXCEPT !.tick = "skipped"] ELSE tick(w)

start(w) ==
  IF w.audioContext = 0 THEN w
  ELSE
    LET w1 == IF w.contexts[w.audioContext].state = "suspended"
              THEN ctxResume(w) ELSE w
        w2 == [w1 EXCEPT !.isRunning = TRUE, !.isPaused = FALSE,
                         !.startTime = w.now - w.elapsedTime]
    IN playSequence(startTimer(updateUI(w2, "active")))

\* pause without the clearTimeout
pauseKeepsTick(w) ==
  LET w1 == [w EXCEPT !.isPaused = TRUE] IN
  IF w1.audioContext = 0 THEN [w1 EXCEPT !.threw = TRUE]
  ELSE updateUI(stopTimer(ctxSuspend(w1)), "paused")

\* pause without the stopTimer
pauseKeepsSampler(w) ==
  LET w1 == [w EXCEPT !.isPaused = TRUE] IN
  IF w1.audioContext = 0 THEN [w1 EXCEPT !.threw = TRUE]
  ELSE
    LET w2 == updateUI(ctxSuspend(w1), "paused")
    IN IF w2.sequenceTimeout # 0 THEN clearTimeout(w2, w2.sequenceTimeout) ELSE w2

pause(w) ==
  LET w1 == [w EXCEPT !.isPaused = TRUE] IN
  IF w1.audioContext = 0 THEN [w1 EXCEPT !.threw = TRUE]
  ELSE
    LET w2 == updateUI(stopTimer(ctxSuspend(w1)), "paused")
    IN IF w2.sequenceTimeout # 0 THEN clearTimeout(w2, w2.sequenceTimeout) ELSE w2

resume(w) ==
  LET w1 == [w EXCEPT !.isPaused = FALSE] IN
  IF w1.audioContext = 0 THEN [w1 EXCEPT !.threw = TRUE]
  ELSE
    LET w2 == playSequence(startTimer(ctxResume(w1)))
    IN IF w2.threw THEN w2 ELSE updateUI(w2, "active")

\* stop leaving isPaused as it is
stopKeepsPaused(w) ==
  LET w1 == stopTimer([w EXCEPT !.isRunning = FALSE,
                                !.elapsedTime = 0, !.stimuliCount = 0,
                                !.activeMs = 0, !.tickAt = -1])
      w2 == IF w1.sequenceTimeout # 0 THEN clearTimeout(w1, w1.sequenceTimeout) ELSE w1
      w3 == IF w2.audioContext # 0 THEN ctxClose(w2) ELSE w2
  IN updateUI(w3, "inactive")

\* stop without the clearTimeout
stopKeepsTick(w) ==
  LET w1 == stopTimer([w EXCEPT !.isRunning = FALSE, !.isPaused = FALSE,
                                !.elapsedTime = 0, !.stimuliCount = 0,
                                !.activeMs = 0, !.tickAt = -1])
      w3 == IF w1.audioContext # 0 THEN ctxClose(w1) ELSE w1
  IN updateUI(w3, "inactive")

stop(w) ==
  LET w1 == stopTimer([w EXCEPT !.isRunning = FALSE, !.isPaused = FALSE,
                                !.elapsedTime = 0, !.stimuliCount = 0,
                                !.activeMs = 0, !.tickAt = -1])
      w2 == IF w1.sequenceTimeout # 0 THEN clearTimeout(w1, w1.sequenceTimeout) ELSE w1
      w3 == IF w2.audioContext # 0 THEN ctxClose(w2) ELSE w2
  IN updateUI(w3, "inactive")

----------------------------------------------------------------------------
(* The steps of the program *)

Idle == Phase = "Idle"
Running == Phase = "Running"
Paused == Phase = "Paused"

Init ==
  /\ isRunning = FALSE
  /\ isPaused = FALSE
  /\ startTime = 0
  /\ elapsedTime = 0
  /\ stimuliCount = 0
  /\ timerInterval = 0
  /\ sequenceTimeout = 0
  /\ audioContext = 0
  /\ synthesizer = [ctx |-> 0]
  /\ processor = NoProcessor
  /\ config = TherapyConfig
  /\ timeouts = {}
  /\ intervals = {}
  /\ contexts = [c \in CtxIds |-> NoContext]
  /\ now = Epoch
  /\ ui = "inactive"
  /\ activeMs = 0
  /\ tickAt = -1
  /\ last = [op |-> "constructor", threw |-> FALSE, tick |-> "none",
             stimulus |-> << >>, spoke |-> FALSE, delay |-> -1,
             cancelled |-> FALSE, from |-> "Idle", count0 |-> 0, elapsed0 |-> 0,
             arg |-> << >>]

Loaded == last.op # "constructor"
CanTick == stimuliCount < MaxStimuli

\* manager.initialize() as the script is loaded
Load ==
  /\ ~Loaded
  /\ \E ok \in BOOLEAN, st \in {"suspended", "running"} :
       Becomes(initialize(World, ok, st), "initialize")

\* the click handlers; a disabled button gives no click
ClickStart ==
  /\ Loaded /\ ui = "inactive" /\ CanTick
  /\ Becomes(start(World), "start")

ClickPause ==
  /\ Loaded /\ ui # "inactive"
  /\ IF isPaused
     THEN CanTick /\ Becomes(resume(World), "resume")
     ELSE Becomes(pause(World), "pause")

ClickStop ==
  /\ Loaded /\ ui # "inactive"
  /\ Becomes(stop(World), "stop")

\* a setTimeout callback runs: () => this.playSequence()
TimeoutFires ==
  \E t \in timeouts :
    /\ now >= t.due /\ CanTick
    /\ Becomes(playSequence([World EXCEPT !.timeouts = @ \ {t}]), "timeout")

\* a setInterval callback runs
IntervalFires ==
  \E t \in intervals :
    /\ now >= t.due
    /\ Becomes(sampler([World EXCEPT !.intervals =
                          (@ \ {t}) \cup {[t EXCEPT !.due = now + SamplerPeriodMs]}]),
               "sampler")

\* the promise of audioContext.close() is fulfilled: () => this.initialize()
CloseResolves ==
  \E c \in CtxIds :
    /\ contexts[c].closing /\ contexts[c].state # "closed"
    /\ \E ok \in BOOLEAN, st \in {"suspended", "running"} :
         Becomes(initialize([World EXCEPT !.contexts[c].state = "closed"], ok, st),
                 "closed")

\* an input event of one of the configuration controls params
InputOf(params) ==
  /\ Loaded
  /\ \E param \in params :
       \E value \in (CASE param = "duration" -> Durations
                       [] param = "interval" -> IntervalsSec
                       [] param = "technique" -> Techniques
                       [] param = "frequency" -> Frequencies
                       [] param = "panning" -> Pannings
                       [] param = "volume" -> Volumes
                       [] param = "lowpassFreq" -> LowpassFreqs
                       [] param = "highpassFreq" -> HighpassFreqs
                       [] OTHER -> Texts) :
         /\ config[param] # value
         /\ Becomes([World EXCEPT !.config = update(@, param, value)], "config")

ConfigInput == InputOf({"duration", "interval", "technique", "ttsText"})

\* a timer that is due stays due: how long it has been is not recorded
Overdue(due, t) == IF due <= t THEN t ELSE due

\* time passes; the clock of a running context advances with it
Advance ==
  /\ Loaded
  /\ now + StepMs <= Epoch + MaxSteps * StepMs
  /\ Becomes([World EXCEPT
                !.now = @ + StepMs,
                !.activeMs = IF Running THEN @ + StepMs ELSE @,
                !.intervals = {[t EXCEPT !.due = Overdue(@, now + StepMs)] : t \in @},
                !.timeouts = {[t EXCEPT !.due = Overdue(@, now + StepMs)] : t \in @},
                !.contexts = [c \in CtxIds |->
                                IF @[c].state = "running" /\ ~@[c].closing
                                THEN [@[c] EXCEPT !.currentTime = @ + StepMs]
                                ELSE @[c]]],
             "advance")

Next ==
  \/ Load
  \/ ClickStart
  \/ ClickPause
  \/ ClickStop
  \/ TimeoutFires
  \/ IntervalFires
  \/ CloseResolves
  \/ ConfigInput
  \/ Advance

Spec == Init /\ [][Next]_vars

----------------------------------------------------------------------------
(* The methods called directly, in any order and from any phase, without   *)
(* the buttons' gating, with the configuration left as constructed         *)

\* start() and resume() leave up to two more timers outstanding
TimerRoom == Cardinality(timeouts) + Cardinality(intervals) + 2 <= MaxTimers

CallStart == Loaded /\ CanTick /\ TimerRoom /\ Becomes(start(World), "start")

CallPause == Loaded /\ Becomes(pause(World), "pause")

CallResume == Loaded /\ CanTick /\ TimerRoom /\ Becomes(resume(World), "resume")

CallStop == Loaded /\ Becomes(stop(World), "stop")

NextAny ==
  \/ Load
  \/ CallStart
  \/ CallPause
  \/ CallResume
  \/ CallStop
  \/ TimeoutFires
  \/ IntervalFires
  \/ CloseResolves
  \/ Advance

SpecAny == Init /\ [][NextAny]_vars

----------------------------------------------------------------------------
(* One session driven through the start and pause/resume buttons while    *)
(* the controls of the frequency and of the processing chain are moved     *)

LiveInput == InputOf({"frequency", "panning", "volume", "lowpassFreq", "highpassFreq"})

NextLive ==
  \/ Load
  \/ ClickStart
  \/ ClickPause
  \/ TimeoutFires
  \/ IntervalFires
  \/ LiveInput
  \/ Advance

SpecLive == Init /\ [][NextLive]_vars

----------------------------------------------------------------------------
(* The methods of the processing chain and of the synthesizer called one   *)
(* at a time on the objects initialize() built, with arguments inside and  *)
(* outside the ranges of the controls                                      *)

\* hundredths: -2, -1, 0, 0.5, 2
PanValues == {-200, -100, 0, 50, 200}
\* hundredths: -0.2, 0, 0.5, 1, 1.5
VolumeValues == {-20, 0, 50, 100, 150}
\* hertz
CutoffValues == {-100, 0, 100, 5000}
\* hundredths of a hertz: 1 Hz, 440 Hz, 12 kHz
BaseFreqs == {100, 44000, 1200000}
\* seconds
ToneDurations == {1, 2}
\* audio time in ms
StartTimes == {0, 1500}

\* initialize() has built the synthesizer and the processor
Constructed == Loaded /\ audioContext # 0

CallUpdateSpatial ==
  /\ Constructed
  /\ \E v \in PanValues :
       Becomes([World EXCEPT !.processor = updateSpatial(@, v), !.arg = <<v>>],
               "updateSpatial")

CallUpdateVolume ==
  /\ Constructed
  /\ \E v \in VolumeValues :
       Becomes([World EXCEPT !.processor = updateVolume(@, v), !.arg = <<v>>],
               "updateVolume")

CallUpdateLowpass ==
  /\ Constructed
  /\ \E v \in CutoffValues :
       Becomes([World EXCEPT !.processor = updateLowpass(@, v), !.arg = <<v>>],
               "updateLowpass")

CallUpdateHighpass ==
  /\ Constructed
  /\ \E v \in CutoffValues :
       Becomes([World EXCEPT !.processor = updateHighpass(@, v), !.arg = <<v>>],
               "updateHighpass")

CallCreatePureTone ==
  /\ Constructed
  /\ \E f \in BaseFreqs, d \in ToneDurations, t \in StartTimes :
       Becomes([World EXCEPT !.stimulus = << createPureTone(f, d, t) >>,
                             !.arg = <<f, d, t>>],
               "createPureTone")

CallCreateACRN ==
  /\ Constructed
  /\ \E f \in BaseFreqs, d \in ToneDurations, t \in StartTimes :
       Becomes([World EXCEPT !.stimulus = createACRN(f, d, t), !.arg = <<f, d, t>>],
               "createACRN")

NextCalls ==
  \/ Load
  \/ CallUpdateSpatial
  \/ CallUpdateVolume
  \/ CallUpdateLowpass
  \/ CallUpdateHighpass
  \/ CallCreatePureTone
  \/ CallCreateACRN

SpecCalls == Init /\ [][NextCalls]_vars

----------------------------------------------------------------------------
(* The claims *)

\* the delay a tick gives setTimeout under the configuration of this state
nextDelayOf(cfg) == (cfg.duration + cfg.interval) * 1000

\* the tick of this step left its successor, and only it, scheduled after
\* (duration + interval) * 1000 ms
SuccessorScheduled ==
  /\ Cardinality(timeouts) = 1
  /\ \A t \in timeouts : t.id = sequenceTimeout /\ t.due = now + nextDelayOf(config)

\* a playSequence call of this step went past its guard
Ticked == last.tick \in {"done", "threw"}

\* C1: time spent in Paused is never counted in the session clock: every
\* elapsed value is at most the real time the session has spent Running since
\* its start, within the sampler's 100 ms.
C1_PausedTimeNotCounted == elapsedTime <= activeMs + SamplerPeriodMs

\* C2: the tick pending when pause() or stop() is called never fires: outside
\* Running no tick timer is outstanding, and a tick timer that is outstanding
\* is the one the latest tick scheduled, so no timer of before a pause or a
\* stop is left to fire after a later resume() or start().
C2_PendingTickCancelled ==
  /\ ~Running => timeouts = {}
  /\ \A t \in timeouts : t.id = sequenceTimeout

\* a pause() has just cancelled the tick that was pending
C2_Witness == last.op = "pause" /\ last.cancelled /\ Paused /\ timeouts = {}

\* C3: stop() called in Running or in Paused leaves the session Idle with
\* stimuliCount = 0 and elapsedTime = 0 and no tick timer and no sampler
\* interval outstanding.
C3_StopResets ==
  last.op = "stop" =>
    /\ ~isRunning /\ ~isPaused
    /\ stimuliCount = 0 /\ elapsedTime = 0
    /\ timeouts = {} /\ intervals = {} /\ timerInterval = 0

\* a stop() from Paused of a session that had emitted stimuli and shown time
C3_Witness ==
  last.op = "stop" /\ last.from = "Paused" /\ last.count0 > 1 /\ last.elapsed0 > 0

\* C4: a tick has an effect only in Running: a step in which playSequence
\* goes past its guard ends Running, and in any other step stimuliCount does
\* not change (but for the reset of stop()), no tick timer is scheduled and
\* nothing is emitted, whatever the order of the start/pause/resume/stop calls.
C4_TickOnlyInRunning ==
  [][IF last'.tick \in {"done", "threw"}
     THEN isRunning' /\ ~isPaused'
     ELSE /\ stimuliCount' = stimuliCount \/ (last'.op = "stop" /\ stimuliCount' = 0)
          /\ {t.id : t \in timeouts'} \subseteq {t.id : t \in timeouts}
          /\ last'.stimulus = << >> /\ ~last'.spoke]_vars

\* a tick timer left behind by a second start() fires in Paused and does nothing
C4_Witness ==
  last.op = "timeout" /\ last.tick = "skipped" /\ Paused /\ stimuliCount = last.count0

\* C5: a tick that fails leaves the session Running with its successor
\* scheduled after (duration + interval) * 1000 ms.
C5_FailedTickKeepsSchedule ==
  last.tick = "threw" => Running /\ SuccessorScheduled

\* C6: every session that is Running uses an audio context that is open, not
\* being closed, resumed, and the one its synthesizer and processor were
\* built on.
C6_RunningOnReadyDevice ==
  Running =>
    /\ audioContext # 0
    /\ ~contexts[audioContext].closing
    /\ contexts[audioContext].state = "running"
    /\ synthesizer.ctx = audioContext /\ processor.ctx = audioContext

\* C7: start() from Idle executes tick #1 at once (stimuliCount is 1 when it
\* returns) and every tick leaves exactly one successor scheduled after
\* (duration + interval) * 1000 ms of the configuration it read.
C7_StartTicksAndSchedules ==
  /\ last.op = "start" => stimuliCount = 1 /\ last.tick = "done"
  /\ Ticked => SuccessorScheduled /\ last.delay = nextDelayOf(config)

\* C8: at most one tick timer is outstanding in every state, and a tick never
\* runs at a clock reading before that of the tick before it; a tick run by
\* the timer runs at a later one.
C8_TicksNeverMultiply ==
  /\ [](Cardinality(timeouts) <= 1)
  /\ [][(last'.tick \in {"done", "threw"} /\ tickAt # -1) =>
          /\ tickAt' >= tickAt
          /\ last'.op = "timeout" => tickAt' > tickAt]_vars

\* the third tick of a session, run by the timer of the tick a resume() ran
C8_Witness ==
  last.op = "timeout" /\ last.tick = "done" /\ stimuliCount = 3 /\ Cardinality(timeouts) = 1

\* C9: start() with no audio context initializes the device and runs tick #1;
\* a start() from Idle returns with the session Running or with an error.
C9_StartRunsOrReportsError ==
  last.op = "start" =>
    \/ audioContext # 0 /\ isRunning /\ stimuliCount = 1
    \/ last.threw

\* C10: a tick with technique "tts" and a text that is empty or only
\* whitespace does not call speechSynthesis.speak, starts no source, adds
\* exactly 1 to stimuliCount and schedules its successor after
\* (duration + interval) * 1000 ms.
C10_BlankTextTick ==
  (Ticked /\ config.technique = "tts" /\ trim(config.ttsText) = << >>) =>
    /\ last.tick = "done"
    /\ ~last.spoke /\ last.stimulus = << >>
    /\ stimuliCount = last.count0 + 1
    /\ SuccessorScheduled

\* a "tts" tick whose text is one space: the text is not empty, so speakText
\* is called and its trim decides
C10_Witness ==
  last.tick = "done" /\ config.technique = "tts" /\ config.ttsText = <<" ">>

\* C11: a tick whose technique is none of "acrn", "notch", "white", "tts"
\* starts no source and speaks nothing, adds exactly 1 to stimuliCount, leaves
\* the session Running and schedules its successor after
\* (duration + interval) * 1000 ms.
C11_UnknownTechniqueTick ==
  (Ticked /\ config.technique \notin {"acrn", "notch", "white", "tts"}) =>
    /\ last.tick = "done"
    /\ last.stimulus = << >> /\ ~last.spoke
    /\ stimuliCount = last.count0 + 1
    /\ Running
    /\ SuccessorScheduled /\ last.delay = nextDelayOf(config)

\* the timer runs a tick under a technique the tick does not know
C11_Witness ==
  last.op = "timeout" /\ last.tick = "done" /\ config.technique = "other"
    /\ stimuliCount = 2

\* v brought into lo..hi
clamped(v, lo, hi) == IF v < lo THEN lo ELSE IF v > hi THEN hi ELSE v

\* C12: the chain setters sanitize their argument v: updateSpatial applies v
\* clamped to [-1, 1], updateVolume applies v clamped to [0, 1], and
\* updateLowpass / updateHighpass given a cutoff <= 0 end with an error and
\* leave both cutoffs as they were.
C12_SettersSanitize ==
  [][/\ last'.op = "updateSpatial" =>
          processor'.pan = clamped(last'.arg[1], -100, 100)
     /\ last'.op = "updateVolume" =>
          processor'.gain = clamped(last'.arg[1], 0, 100)
     /\ (last'.op \in {"updateLowpass", "updateHighpass"} /\ last'.arg[1] <= 0) =>
          /\ last'.threw
          /\ processor'.lowpass = processor.lowpass
          /\ processor'.highpass = processor.highpass]_vars

\* the factors 0.77, 0.90, 1.10, 1.23 in hundredths
ACRNFactors == <<77, 90, 110, 123>>

\* C13: for a base frequency f > 0 createACRN returns exactly four tones, in
\* this order, of frequencies 0.77 f, 0.90 f, 1.10 f, 1.23 f, whose envelopes
\* start 0, 0.1, 0.2, 0.3 s after the reference time.
C13_ACRNTones ==
  last.op = "createACRN" =>
    LET f == last.arg[1]
        t0 == last.arg[3]
    IN /\ Len(last.stimulus) = 4
       /\ \A i \in 1..4 :
            /\ last.stimulus[i].kind = "sine"
            /\ 100 * last.stimulus[i].frequency = ACRNFactors[i] * f
            /\ last.stimulus[i].envelope[1].t = t0 + (i - 1) * 100

\* createACRN called for 12 kHz at a reference time that is not 0
C13_Witness ==
  last.op = "createACRN" /\ last.arg[1] = 1200000 /\ last.arg[3] = 1500
    /\ Len(last.stimulus) = 4

\* C14: in an "acrn" tick at reference time t0 each tone i = 0..3 sounds from
\* t0 + i * 0.1 s for the whole configured duration: its source is started no
\* later than t0 + i * 0.1 s and is not stopped before t0 + i * 0.1 s + duration.
C14_ACRNTonesSoundInFull ==
  (last.tick = "done" /\ config.technique = "acrn") =>
    /\ Len(last.stimulus) = 4
    /\ \A i \in 1..4 :
         LET tone == last.stimulus[i]
             from == tone.envelope[1].t
         IN /\ from = tone.start + (i - 1) * 100
            /\ tone.start <= from
            /\ tone.stop >= from + config.duration * 1000

\* C15: under the buttons' transitions the sampler runs in Running only and
\* writes the clock only: at most one sampler interval is outstanding, none in
\* Idle or Paused; outside Running elapsedTime changes by no step but a
\* start(), a resume() or a stop(); and a sampler pass changes nothing of the
\* session but elapsedTime.
C15_SamplerOnlyInRunning ==
  /\ [](Cardinality(intervals) <= 1 /\ (~Running => intervals = {}))
  /\ [][/\ (~Running /\ last'.op \notin {"start", "resume", "stop"}) =>
            elapsedTime' = elapsedTime
        /\ last'.op = "sampler" =>
            /\ Running
            /\ UNCHANGED <<isRunning, isPaused, startTime, stimuliCount,
                           timerInterval, sequenceTimeout, timeouts, audioContext,
                           synthesizer, processor, config, contexts, ui, tickAt>>
            /\ last'.stimulus = << >> /\ ~last'.spoke]_vars

\* a sampler pass has moved the clock again, in a session past its first tick
C15_Witness ==
  last.op = "sampler" /\ elapsedTime > last.elapsed0 /\ last.elapsed0 > 0
    /\ stimuliCount > 1

\* C16: resume() from Paused restarts the cadence: it runs a tick at once
\* (stimuliCount is 1 more when it returns) and leaves the next tick scheduled
\* a full (duration + interval) * 1000 ms after the resume, however much of
\* the interrupted interval had passed before the pause.
C16_ResumeRestartsCadence ==
  (last.op = "resume" /\ last.from = "Paused") =>
    /\ Running
    /\ last.tick = "done"
    /\ stimuliCount = last.count0 + 1
    /\ SuccessorScheduled

\* the sources stim are those of a stimulus of cfg's technique, frequency and
\* duration
StimulusOf(cfg, stim) ==
  CASE cfg.technique = "acrn" ->
         /\ Len(stim) = 4
         /\ \A i \in 1..4 :
              /\ stim[i].kind = "sine"
              /\ 100 * stim[i].frequency = ACRNFactors[i] * cfg.frequency
              /\ stim[i].stop - stim[i].start = cfg.duration * 1000
    [] cfg.technique = "notch" ->
         /\ Len(stim) = 1
         /\ stim[1].kind = "sine"
         /\ stim[1].frequency = cfg.frequency
         /\ stim[1].stop - stim[1].start = cfg.duration * 1000
    [] cfg.technique = "white" ->
         /\ Len(stim) = 1
         /\ stim[1].kind = "noise"
         /\ stim[1].envelope[3].t - stim[1].envelope[1].t = cfg.duration * 1000 - 100
    [] OTHER -> stim = << >>

\* C17: every tick that runs re-reads the live configuration: right after it
\* the chain's pan, gain, lowpass and highpass cutoffs are the config's
\* panning, volume, lowpassFreq and highpassFreq, and the stimulus is of the
\* config's technique, frequency and duration, whatever updates came between
\* the ticks; a config update by itself changes the configuration only.
C17_TickReadsLiveConfig ==
  /\ [](Ticked => /\ processor.pan = config.panning
                  /\ processor.gain = config.volume
                  /\ processor.lowpass = config.lowpassFreq
                  /\ processor.highpass = config.highpassFreq)
  /\ [](last.tick = "done" => StimulusOf(config, last.stimulus))
  /\ [][last'.op = "config" =>
          UNCHANGED <<isRunning, isPaused, startTime, elapsedTime, stimuliCount,
                      timerInterval, sequenceTimeout, audioContext, synthesizer,
                      processor, timeouts, intervals, contexts, now, ui>>]_vars

\* the timer runs a tick with all five controls moved off the values the
\* chain was built with
C17_Witness ==
  /\ last.op = "timeout" /\ last.tick = "done"
  /\ processor = [ctx |-> audioContext, pan |-> -100, lowpass |-> 1000,
                  highpass |-> 500, gain |-> 100]
  /\ config.frequency = 100000

\* C18: the envelope createPureTone schedules for a tone of duration > 0.02 s
\* at t0 is 0 at t0, 1 at t0 + 0.01 s, held at 1 until t0 + duration - 0.01 s,
\* and falls linearly to 0 over the last 10 ms, reaching 0 at t0 + duration.
C18_EnvelopeHeld ==
  (last.op = "createPureTone" /\ last.arg[2] * 1000 > 20) =>
    LET env == last.stimulus[1].envelope
        t0 == last.arg[3]
        d == last.arg[2] * 1000
    IN /\ valueAt(env, t0) = 0
       /\ valueAt(env, t0 + 5) = 500
       /\ \A t \in {t0 + 10, t0 + d \div 2, t0 + d - 10} : valueAt(env, t) = 1000
       /\ valueAt(env, t0 + d - 5) = 500
       /\ valueAt(env, t0 + d) = 0

\* C19: the methods are safe without the buttons' gating: whatever the order
\* of the start(), pause(), resume() and stop() calls and of the timers'
\* callbacks, at most one tick timer and at most one sampler interval are
\* outstanding, and once stop() has returned no timer left over changes
\* elapsedTime or stimuliCount while the session is Idle.
C19_SafeWithoutGating ==
  /\ [](Cardinality(timeouts) <= 1 /\ Cardinality(intervals) <= 1)
  /\ [][(~isRunning /\ last'.op \in {"timeout", "sampler"}) =>
          UNCHANGED <<elapsedTime, stimuliCount>>]_vars

\* C20: in every state reached through the button handlers the two flags
\* encode one of the three phases: isPaused implies isRunning; and a tick
\* timer or a sampler interval is outstanding only with isRunning true and
\* isPaused false.
C20_FlagsEncodePhase ==
  /\ isPaused => isRunning
  /\ (timeouts # {} \/ intervals # {}) => (isRunning /\ ~isPaused)

\* Idle again by a stop() from Paused
C20_Witness ==
  last.op = "stop" /\ last.from = "Paused" /\ ~isRunning /\ ~isPaused
    /\ timeouts = {} /\ intervals = {}

====
